---- MODULE Spec2Model ----
(***************************************************************************)
(* The dress list editor (App component, two variants) as a state machine. *)
(*                                                                         *)
(* The repository holds two variants of the App component:                 *)
(*   "basic"  src/unnamed/part_000  save = delayed write to localStorage,  *)
(*                                  'storage' listener, seeding on load    *)
(*   "cloud"  src/unnamed/part_001  save = write to localStorage followed  *)
(*                                  by one awaited remote call per entry   *)
(* A browser profile runs one variant; its tabs are the sessions.  They    *)
(* share the single localStorage slot STORAGE_KEY.                         *)
(***************************************************************************)
EXTENDS Integers, Sequences, FiniteSets, TLC

VARIABLES
    variant,        \* which App component the tabs run: "basic" or "cloud"
    now,            \* Date.now()
    slot,           \* localStorage[STORAGE_KEY]
    nextId,         \* crypto.randomUUID(): the next token it hands out
    ops,            \* user edits still to come (bounds the exploration)
    saves,          \* writes to the slot still to come (bounds the exploration)
    status,         \* per session: "closed", "open" (mounted) or "crashed"
    entries,        \* per session: the entries state
    isSyncing,      \* per session: the isSyncing state
    lastSyncTime,   \* per session: the lastSyncTime state (NoTime for null)
    syncProgress,   \* per session: the syncProgress state (cloud)
    timers,         \* per session: the syncData of each pending setTimeout (basic)
    pass,           \* per session: the running or last saveToCloud pass (cloud)
    notices,        \* per session: alerts shown since the last save was invoked
    inbox,          \* per session: StorageEvents dispatched to the tab, not yet handled
    uploads,        \* per session: entry ids with a FileReader / compressImage in flight
    lastWriter,     \* history: who wrote the slot last (a session, "page" or "none")
    written,        \* history, per session: lastUpdated of its latest write (NoTime: none)
    timeLeft,       \* CountdownTimer: the timeLeft state
    interval,       \* CountdownTimer: its setInterval, "none", "set" or "cleared"
    fired,          \* CountdownTimer: runs of the interval callback so far
    img,            \* compressImage: the decoded Image whose onload is due (NoImage: none)
    canvas          \* compressImage: the canvas it drew on (NoCanvas: none yet)

vars == <<variant, now, slot, nextId, ops, saves, status, entries, isSyncing, lastSyncTime,
          syncProgress, timers, pass, notices, inbox, uploads, lastWriter, written,
          timeLeft, interval, fired, img, canvas>>

\* the state of the countdown and of the image normalizer
widgets == <<timeLeft, interval, fired, img, canvas>>

(***************************************************************************)
(* Bounds of the exploration                                               *)
(***************************************************************************)
MaxOps == 1          \* Spec: user edits in one behaviour
MaxSaves == 2        \* Spec: writes to the slot in one behaviour
MaxTime == 2         \* the clock runs 1..MaxTime
StoreOps == 4        \* SpecStore: user edits in one behaviour
MirrorOps == 1       \* SpecMirror: user edits in one behaviour
MirrorSaves == 2     \* SpecMirror: saves in one behaviour
ApiCalls == 2        \* SpecApi: calls in one behaviour
TabOps == 1          \* SpecTabs: user edits in one behaviour
TabSaves == 1        \* SpecTabs: writes to the slot in one behaviour
MaxFires == 2        \* SpecCountdown: runs of the interval callback in one behaviour
MaxSideSteps == 4    \* SpecImage: image sides run up to 300 * MaxSideSteps + 1 (and some beyond)

Sessions == {"A", "B"}
Variants == {"basic", "cloud"}

(***************************************************************************)
(* Values                                                                  *)
(***************************************************************************)
Null == "<null>"
NoTime == 0                      \* lastSyncTime = null
TEAM_MEMBERS == <<"Batya", "Miri">>
Roster == {TEAM_MEMBERS[k] : k \in 1..Len(TEAM_MEMBERS)}
Stranger == "Guest"              \* a name that is not on the roster
Votes == {"up", "down"}
Locations == {"salon"}           \* what the user types into the location input
Prices == {"900"}                \* what the user types into the price input
NoteTexts == {"love it"}         \* what the user types into a note textarea
DataUrl == "data:image/jpeg;base64,AAAA"

\* { ...a, ...b }
Merge(a, b) ==
    [k \in (DOMAIN a) \cup (DOMAIN b) |-> IF k \in DOMAIN b THEN b[k] ELSE a[k]]

\* TEAM_MEMBERS.reduce((acc, name) => ({...acc, [name]: {name, note: '', vote: null}}), {})
RECURSIVE ReduceNotes(_, _)
ReduceNotes(acc, k) ==
    IF k > Len(TEAM_MEMBERS) THEN acc
    ELSE ReduceNotes(
           Merge(acc, [n \in {TEAM_MEMBERS[k]} |->
                         [name |-> TEAM_MEMBERS[k], note |-> "", vote |-> Null]]),
           k + 1)

NewEntry(id) ==
    [id |-> id, location |-> "", price |-> "", image |-> Null,
     teamNotes |-> ReduceNotes(<<>>, 1)]

\* prev.filter(e => e.id !== id)
RECURSIVE FilterOut(_, _)
FilterOut(s, id) ==
    IF s = <<>> THEN <<>>
    ELSE IF Head(s).id = id THEN FilterOut(Tail(s), id)
         ELSE <<Head(s)>> \o FilterOut(Tail(s), id)

IdsOf(s) == {s[k].id : k \in 1..Len(s)}

(***************************************************************************)
(* The Entry Store's functional updates                                    *)
(***************************************************************************)
updateEntry(prev, id, updates) ==
    LET f(e) == IF e.id = id THEN Merge(e, updates) ELSE e
    IN  [k \in 1..Len(prev) |-> f(prev[k])]      \* prev.map(f)

\* the slip of leaving out `...e.teamNotes`
updateMemberNote_NoSpread(prev, entryId, memberName, updates) ==
    LET f(e) ==
          IF e.id = entryId
          THEN Merge(e, [teamNotes |->
                  [n \in {memberName} |-> Merge(e.teamNotes[memberName], updates)]])
          ELSE e
    IN  [k \in 1..Len(prev) |-> f(prev[k])]      \* prev.map(f)

updateMemberNote(prev, entryId, memberName, updates) ==
    LET f(e) ==
          IF e.id = entryId
          THEN LET memberNote == IF memberName \in DOMAIN e.teamNotes
                                 THEN e.teamNotes[memberName]
                                 ELSE <<>>      \* spreading undefined adds nothing
               IN  Merge(e, [teamNotes |->
                      Merge(e.teamNotes,
                            [n \in {memberName} |-> Merge(memberNote, updates)])])
          ELSE e
    IN  [k \in 1..Len(prev) |-> f(prev[k])]      \* prev.map(f)

\* the slip of numbering the entries by their count, not by a fresh token
addNewDress_CountId(v, prev, id) ==
    IF v = "basic" THEN prev \o <<NewEntry(Len(prev) + 1)>>
    ELSE <<NewEntry(Len(prev) + 1)>> \o prev

addNewDress(v, prev, id) ==
    IF v = "basic" THEN prev \o <<NewEntry(id)>>     \* [...prev, newEntry]
    ELSE <<NewEntry(id)>> \o prev                    \* [newEntry, ...prev]

\* the slip of not asking: the entry goes whatever confirm(...) returns
removeDress_NoConfirm(prev, id, confirmed) == FilterOut(prev, id)

removeDress(prev, id, confirmed) ==
    IF confirmed THEN FilterOut(prev, id) ELSE prev

\* the slip of a button that cannot take its vote back
VoteArg_NoUnset(data, b) == b

\* the vote a button press asks for: data.vote === b ? null : b
VoteArg(data, b) == IF data.vote = b THEN Null ELSE b

(***************************************************************************)
(* The Persistence Bridge: the slot, JSON, load and the storage listener   *)
(***************************************************************************)
\* What localStorage.getItem(STORAGE_KEY) can hold.  tag "absent": no item;
\* "snapshot": the text JSON.stringify made of a SyncData; "garbage": text that
\* is no JSON; "null": the text null; "object": the text {} (JSON, no fields).
SlotOf(tag, es, t) == [tag |-> tag, entries |-> es, lastUpdated |-> t]
AbsentSlot == SlotOf("absent", <<>>, NoTime)
MalformedTags == {"garbage", "null", "object"}

\* JSON.stringify(syncData): every value of a SyncData is a string, a number,
\* null, an array or an object, so each one is written out and none is dropped.
JSONstringify(syncData) == SlotOf("snapshot", syncData.entries, syncData.lastUpdated)

\* JSON.parse(text) followed by the reads parsed.entries and parsed.lastUpdated:
\* "throws" (SyntaxError on garbage, TypeError on the fields of null),
\* "undefined" (an object without the fields) or "ok".
ParseSnapshot(text) ==
    CASE text.tag = "garbage"  -> [result |-> "throws", entries |-> <<>>, lastUpdated |-> NoTime]
      [] text.tag = "null"     -> [result |-> "throws", entries |-> <<>>, lastUpdated |-> NoTime]
      [] text.tag = "object"   -> [result |-> "undefined", entries |-> <<>>, lastUpdated |-> NoTime]
      [] text.tag = "snapshot" -> [result |-> "ok", entries |-> text.entries,
                                   lastUpdated |-> text.lastUpdated]

\* The session a mount leaves behind: its status, entries, lastSyncTime and
\* whether it drew an id for a seed entry.
Mounted(st, es, t, drew) == [status |-> st, entries |-> es, lastSyncTime |-> t, seeded |-> drew]

\* part_000: no try/catch; a throw in the effect, or entries set to undefined
\* (entries.map in the render), unmounts the component tree.
LoadBasic(saved, id) ==
    IF saved.tag # "absent"
    THEN LET parsed == ParseSnapshot(saved)
         IN  IF parsed.result = "ok"
             THEN Mounted("open", parsed.entries, parsed.lastUpdated, FALSE)
             ELSE Mounted("crashed", <<>>, NoTime, FALSE)
    ELSE Mounted("open", <<NewEntry(id)>>, NoTime, TRUE)

\* part_001: try/catch around the parse, `|| []` and `|| null`, no seed.
LoadCloud(saved, id) ==
    IF saved.tag # "absent"
    THEN LET parsed == ParseSnapshot(saved)
         IN  CASE parsed.result = "throws"    -> Mounted("open", <<>>, NoTime, FALSE)
               [] parsed.result = "undefined" -> Mounted("open", <<>>, NoTime, FALSE)
               [] parsed.result = "ok"        ->
                    Mounted("open", parsed.entries,
                            IF parsed.lastUpdated = 0 THEN NoTime ELSE parsed.lastUpdated,
                            FALSE)
    ELSE Mounted("open", <<>>, NoTime, FALSE)

LoadEffect(v, saved, id) == IF v = "basic" THEN LoadBasic(saved, id) ELSE LoadCloud(saved, id)

\* handleStorageChange(e) of part_000 on an event for STORAGE_KEY with newValue:
\* a throw inside the listener is reported and the state is kept; undefined
\* entries crash the next render.  part_001 registers no listener.
HandleStorage(v, newValue, es, t) ==
    IF v = "basic" /\ newValue.tag # "absent"
    THEN LET parsed == ParseSnapshot(newValue)
         IN  CASE parsed.result = "throws"    -> Mounted("open", es, t, FALSE)
               [] parsed.result = "undefined" -> Mounted("crashed", es, t, FALSE)
               [] parsed.result = "ok"        ->
                    Mounted("open", parsed.entries, parsed.lastUpdated, FALSE)
    ELSE Mounted("open", es, t, FALSE)

\* localStorage.setItem by `writer`: the browser queues a StorageEvent for every
\* other mounted tab when the stored text changes.  writerEntries is a history
\* field: the writer's entries at the moment of the write.
EventOf(newValue, wes) == [newValue |-> newValue, writerEntries |-> wes]
Dispatch(writer, newValue, wes) ==
    [t \in Sessions |->
        IF t # writer /\ status[t] = "open" /\ newValue # slot
        THEN Append(inbox[t], EventOf(newValue, wes))
        ELSE inbox[t]]

(***************************************************************************)
(* The initial state: no tab is open yet.  The slot is empty, or holds     *)
(* what an earlier session saved (two untouched entries, in the order the  *)
(* variant's addNewDress leaves them).                                     *)
(***************************************************************************)
PriorEntries(v) == addNewDress(v, addNewDress(v, <<>>, 1), 2)
PriorSlot(v) == JSONstringify([entries |-> PriorEntries(v), lastUpdated |-> 1])
NoPass == [active |-> FALSE, syncData |-> [entries |-> <<>>, lastUpdated |-> NoTime],
           calls |-> <<>>]

\* useState({days: 0, hours: 0, minutes: 0, seconds: 0})
ZeroTime == [days |-> 0, hours |-> 0, minutes |-> 0, seconds |-> 0]
NoImage == [width |-> 0, height |-> 0]
NoCanvas == [width |-> 0, height |-> 0]

\* no countdown mounted, no image being normalized
WidgetsIdle ==
    /\ timeLeft = ZeroTime
    /\ interval = "none"
    /\ fired = 0
    /\ img = NoImage
    /\ canvas = NoCanvas

\* no tab open
Closed(variants, edits, writes) ==
    /\ variant \in variants
    /\ slot \in {AbsentSlot, PriorSlot(variant)}
    /\ nextId = 3
    /\ ops = edits
    /\ saves = writes
    /\ status = [s \in Sessions |-> "closed"]
    /\ entries = [s \in Sessions |-> <<>>]
    /\ isSyncing = [s \in Sessions |-> FALSE]
    /\ lastSyncTime = [s \in Sessions |-> NoTime]
    /\ syncProgress = [s \in Sessions |-> 0]
    /\ timers = [s \in Sessions |-> <<>>]
    /\ pass = [s \in Sessions |-> NoPass]
    /\ notices = [s \in Sessions |-> <<>>]
    /\ inbox = [s \in Sessions |-> <<>>]
    /\ uploads = [s \in Sessions |-> {}]
    /\ lastWriter = "none"
    /\ written = [s \in Sessions |-> NoTime]

Start(variants, edits, writes) ==
    /\ now = 1
    /\ WidgetsIdle
    /\ Closed(variants, edits, writes)

(***************************************************************************)
(* The environment: the clock and another page of the same origin          *)
(***************************************************************************)
Tick ==
    /\ now < MaxTime
    /\ now' = now + 1
    /\ UNCHANGED <<widgets, variant, slot, nextId, ops, saves, status, entries, isSyncing, lastSyncTime,
                   syncProgress, timers, pass, notices, inbox, uploads, lastWriter, written>>

\* Something other than the App stores text under STORAGE_KEY that is no Snapshot.
Corrupt(tag) ==
    /\ slot.tag # tag
    /\ saves > 0
    /\ saves' = saves - 1
    /\ slot' = SlotOf(tag, <<>>, NoTime)
    /\ inbox' = Dispatch("page", SlotOf(tag, <<>>, NoTime), <<>>)
    /\ lastWriter' = "page"
    /\ UNCHANGED <<widgets, variant, now, nextId, ops, status, entries, isSyncing, lastSyncTime,
                   syncProgress, timers, pass, notices, uploads, written>>

(***************************************************************************)
(* Mount and the storage listener                                          *)
(***************************************************************************)
\* What an unmounted (crashed) tab no longer does: its listener is removed and
\* the state updates of its callbacks are dropped.
Drop(f, s, st, empty) == [f EXCEPT ![s] = IF st = "crashed" THEN empty ELSE f[s]]

Load(s) ==
    /\ status[s] = "closed"
    /\ LET r == LoadEffect(variant, slot, nextId)
       IN  /\ status' = [status EXCEPT ![s] = r.status]
           /\ entries' = [entries EXCEPT ![s] = r.entries]
           /\ lastSyncTime' = [lastSyncTime EXCEPT ![s] = r.lastSyncTime]
           /\ nextId' = IF r.seeded THEN nextId + 1 ELSE nextId
    /\ UNCHANGED <<widgets, variant, now, slot, ops, saves, isSyncing, syncProgress, timers, pass,
                   notices, inbox, uploads, lastWriter, written>>

StorageEvent(s) ==
    /\ status[s] = "open"
    /\ inbox[s] # <<>>
    /\ LET r == HandleStorage(variant, Head(inbox[s]).newValue, entries[s], lastSyncTime[s])
       IN  /\ status' = [status EXCEPT ![s] = r.status]
           /\ entries' = [entries EXCEPT ![s] = r.entries]
           /\ lastSyncTime' = [lastSyncTime EXCEPT ![s] = r.lastSyncTime]
           /\ inbox' = Drop([inbox EXCEPT ![s] = Tail(inbox[s])], s, r.status, <<>>)
           /\ uploads' = Drop(uploads, s, r.status, {})
    /\ UNCHANGED <<widgets, variant, now, slot, nextId, ops, saves, isSyncing, syncProgress, timers, pass,
                   notices, lastWriter, written>>

(***************************************************************************)
(* The user's edits                                                        *)
(***************************************************************************)
Edit(s, es) ==
    /\ ops > 0
    /\ ops' = ops - 1
    /\ entries' = [entries EXCEPT ![s] = es]

AddNewDress(s) ==
    /\ status[s] = "open"
    /\ Edit(s, addNewDress(variant, entries[s], nextId))
    /\ nextId' = nextId + 1
    /\ UNCHANGED <<widgets, variant, now, slot, saves, status, isSyncing, lastSyncTime, syncProgress,
                   timers, pass, notices, inbox, uploads, lastWriter, written>>

\* onChange of the location and price inputs, onClick of the image's delete button
FieldInputs(e) ==
    {[location |-> v] : v \in (Locations \cup {""}) \ {e.location}}
    \cup {[price |-> v] : v \in (Prices \cup {""}) \ {e.price}}
    \cup {[image |-> v] : v \in {Null} \ {e.image}}

EditField(s, i) ==
    /\ status[s] = "open"
    /\ i \in 1..Len(entries[s])
    /\ \E updates \in FieldInputs(entries[s][i]) :
           Edit(s, updateEntry(entries[s], entries[s][i].id, updates))
    /\ UNCHANGED <<widgets, variant, now, slot, nextId, saves, status, isSyncing, lastSyncTime,
                   syncProgress, timers, pass, notices, inbox, uploads, lastWriter, written>>

\* handleImageUpload: the file is read (and, in part_001, compressed) off the
\* event loop; updateEntry runs when that is done.
ImagePick(s, i) ==
    /\ status[s] = "open"
    /\ i \in 1..Len(entries[s])
    /\ ops > 0
    /\ ops' = ops - 1
    /\ uploads' = [uploads EXCEPT ![s] = @ \cup {entries[s][i].id}]
    /\ UNCHANGED <<widgets, variant, now, slot, nextId, saves, status, entries, isSyncing, lastSyncTime,
                   syncProgress, timers, pass, notices, inbox, lastWriter, written>>

ImageLoaded(s, id) ==
    /\ status[s] = "open"
    /\ id \in uploads[s]
    /\ uploads' = [uploads EXCEPT ![s] = @ \ {id}]
    /\ entries' = [entries EXCEPT ![s] = updateEntry(entries[s], id, [image |-> DataUrl])]
    /\ UNCHANGED <<widgets, variant, now, slot, nextId, ops, saves, status, isSyncing, lastSyncTime,
                   syncProgress, timers, pass, notices, inbox, lastWriter, written>>

\* the remove button: confirm(...) is the user's answer
RemoveClick(s, i, confirmed) ==
    /\ status[s] = "open"
    /\ i \in 1..Len(entries[s])
    /\ IF confirmed
       THEN Edit(s, removeDress(entries[s], entries[s][i].id, confirmed))
       ELSE /\ entries' = [entries EXCEPT ![s] = removeDress(entries[s], entries[s][i].id, confirmed)]
            /\ UNCHANGED ops
    /\ UNCHANGED <<widgets, variant, now, slot, nextId, saves, status, isSyncing, lastSyncTime,
                   syncProgress, timers, pass, notices, inbox, uploads, lastWriter, written>>

\* the two vote buttons of TEAM_MEMBERS.map(name => ...)
VoteClick(s, i, name, b) ==
    /\ status[s] = "open"
    /\ i \in 1..Len(entries[s])
    /\ LET data == entries[s][i].teamNotes[name]
       IN  Edit(s, updateMemberNote(entries[s], entries[s][i].id, name,
                                    [vote |-> VoteArg(data, b)]))
    /\ UNCHANGED <<widgets, variant, now, slot, nextId, saves, status, isSyncing, lastSyncTime,
                   syncProgress, timers, pass, notices, inbox, uploads, lastWriter, written>>

\* onChange of a member's textarea
NoteInput(s, i, name, text) ==
    /\ status[s] = "open"
    /\ i \in 1..Len(entries[s])
    /\ text # entries[s][i].teamNotes[name].note
    /\ Edit(s, updateMemberNote(entries[s], entries[s][i].id, name, [note |-> text]))
    /\ UNCHANGED <<widgets, variant, now, slot, nextId, saves, status, isSyncing, lastSyncTime,
                   syncProgress, timers, pass, notices, inbox, uploads, lastWriter, written>>

(***************************************************************************)
(* saveToCloud                                                             *)
(***************************************************************************)
\* Math.round((done / total) * 100)
Percent(done, total) == (200 * done + total) \div (2 * total)

\* The slot once saveToCloud has run as far as its localStorage.setItem with
\* this syncData: part_001 returns before it when there is no entry.
SaveWrites(v, syncData, cur) ==
    IF v = "cloud" /\ Len(syncData.entries) = 0 THEN cur ELSE JSONstringify(syncData)

\* part_000: the write happens in a setTimeout callback, 800 ms later, with the
\* syncData built at the click.  The floating button is never disabled.
SaveInvokeBasic(s) ==
    /\ variant = "basic"
    /\ status[s] = "open"
    /\ saves > 0
    /\ saves' = saves - 1
    /\ isSyncing' = [isSyncing EXCEPT ![s] = TRUE]
    /\ timers' = [timers EXCEPT ![s] = Append(@, [entries |-> entries[s], lastUpdated |-> now])]
    /\ notices' = [notices EXCEPT ![s] = <<>>]
    /\ UNCHANGED <<widgets, variant, now, slot, nextId, ops, status, entries, lastSyncTime,
                   syncProgress, pass, inbox, uploads, lastWriter, written>>

\* The callback: setItem, setLastSyncTime, setIsSyncing(false), a plain
\* Event('storage') (its key is undefined, so the tab's own listener skips it),
\* alert.  Callbacks with the same delay run in the order they were set.
SaveTimerFires(s) ==
    /\ variant = "basic"
    /\ timers[s] # <<>>
    /\ LET syncData == Head(timers[s])
       IN  /\ slot' = SaveWrites(variant, syncData, slot)
           /\ inbox' = Dispatch(s, SaveWrites(variant, syncData, slot), entries[s])
           /\ lastSyncTime' = [lastSyncTime EXCEPT ![s] =
                                 IF status[s] = "open" THEN syncData.lastUpdated ELSE @]
           /\ written' = [written EXCEPT ![s] = syncData.lastUpdated]
    /\ isSyncing' = [isSyncing EXCEPT ![s] = IF status[s] = "open" THEN FALSE ELSE @]
    /\ timers' = [timers EXCEPT ![s] = Tail(@)]
    /\ notices' = [notices EXCEPT ![s] = Append(@, "success")]
    /\ lastWriter' = s
    /\ UNCHANGED <<widgets, variant, now, nextId, ops, saves, status, entries, syncProgress, pass, uploads>>

\* One outbound generateContent call: the parts built from entry i of the pass's
\* entries (the text part carries its id, location, price and notes; the
\* inlineData part is added for a data:image url), and how the call stands.
Request(es, i) ==
    [id |-> es[i].id, location |-> es[i].location, price |-> es[i].price,
     notes |-> es[i].teamNotes, inlineData |-> es[i].image = DataUrl]
CallOf(es, i) == [request |-> Request(es, i), state |-> "inflight"]
Settle(calls, state) == [calls EXCEPT ![Len(calls)] = [@ EXCEPT !.state = state]]

\* part_001: nothing on an empty list; else the write, then the loop up to its
\* first await.  Both save buttons are disabled while isSyncing.
SaveInvokeCloud(s) ==
    /\ variant = "cloud"
    /\ status[s] = "open"
    /\ ~isSyncing[s]
    /\ IF Len(entries[s]) = 0
       THEN UNCHANGED <<slot, saves, inbox, isSyncing, syncProgress, pass, notices,
                        lastWriter, written>>
       ELSE LET syncData == [entries |-> entries[s], lastUpdated |-> now]
            IN  /\ saves > 0
                /\ saves' = saves - 1
                /\ slot' = SaveWrites(variant, syncData, slot)
                /\ inbox' = Dispatch(s, SaveWrites(variant, syncData, slot), entries[s])
                /\ isSyncing' = [isSyncing EXCEPT ![s] = TRUE]
                /\ syncProgress' = [syncProgress EXCEPT ![s] = Percent(1, Len(syncData.entries))]
                /\ pass' = [pass EXCEPT ![s] = [active |-> TRUE, syncData |-> syncData,
                                                calls |-> <<CallOf(syncData.entries, 1)>>]]
                /\ notices' = [notices EXCEPT ![s] = <<>>]
                /\ lastWriter' = s
                /\ written' = [written EXCEPT ![s] = syncData.lastUpdated]
    /\ UNCHANGED <<widgets, variant, now, nextId, ops, status, entries, lastSyncTime, timers, uploads>>

\* finally { setIsSyncing(false); setSyncProgress(0) }
PassEnds(s, calls, notice) ==
    /\ pass' = [pass EXCEPT ![s] = [@ EXCEPT !.active = FALSE, !.calls = calls]]
    /\ notices' = [notices EXCEPT ![s] = Append(@, notice)]
    /\ isSyncing' = [isSyncing EXCEPT ![s] = FALSE]
    /\ syncProgress' = [syncProgress EXCEPT ![s] = 0]

\* ai.models.generateContent resolves: the loop goes on to the next entry of
\* the entries it was started with, or ends.
CallResolves(s) ==
    /\ pass[s].active
    /\ LET i == Len(pass[s].calls)
           total == Len(pass[s].syncData.entries)
           calls == Settle(pass[s].calls, "done")
       IN  IF i < total
           THEN /\ pass' = [pass EXCEPT ![s] = [@ EXCEPT !.calls =
                                     Append(calls, CallOf(pass[s].syncData.entries, i + 1))]]
                /\ syncProgress' = [syncProgress EXCEPT ![s] = Percent(i + 1, total)]
                /\ UNCHANGED <<notices, isSyncing, lastSyncTime>>
           ELSE /\ PassEnds(s, calls, "success")
                /\ lastSyncTime' = [lastSyncTime EXCEPT ![s] = pass[s].syncData.lastUpdated]
    /\ UNCHANGED <<widgets, variant, now, slot, nextId, ops, saves, status, entries, timers, inbox,
                   uploads, lastWriter, written>>

\* the slip of a try/catch inside the loop: a rejected call is noted and the
\* loop goes on to the next entry
CallRejects_GoesOn(s) ==
    /\ pass[s].active
    /\ LET i == Len(pass[s].calls)
           total == Len(pass[s].syncData.entries)
           calls == Settle(pass[s].calls, "failed")
       IN  IF i < total
           THEN /\ pass' = [pass EXCEPT ![s] = [@ EXCEPT !.calls =
                                     Append(calls, CallOf(pass[s].syncData.entries, i + 1))]]
                /\ notices' = [notices EXCEPT ![s] = Append(@, "failure")]
                /\ UNCHANGED <<isSyncing, syncProgress>>
           ELSE PassEnds(s, calls, "failure")
    /\ UNCHANGED <<widgets, variant, now, slot, nextId, ops, saves, status, entries, lastSyncTime, timers,
                   inbox, uploads, lastWriter, written>>

\* the slip of undoing the local write when the mirror fails
CallRejects_RollsBack(s) ==
    /\ pass[s].active
    /\ PassEnds(s, Settle(pass[s].calls, "failed"), "failure")
    /\ slot' = AbsentSlot
    /\ UNCHANGED <<widgets, variant, now, nextId, ops, saves, status, entries, lastSyncTime, timers,
                   inbox, uploads, lastWriter, written>>

\* ai.models.generateContent rejects: catch, then finally.
CallRejects(s) ==
    /\ pass[s].active
    /\ PassEnds(s, Settle(pass[s].calls, "failed"), "failure")
    /\ UNCHANGED <<widgets, variant, now, slot, nextId, ops, saves, status, entries, lastSyncTime, timers,
                   inbox, uploads, lastWriter, written>>

(***************************************************************************)
(* The program: every tab, every handler                                   *)
(***************************************************************************)
Init == Start(Variants, MaxOps, MaxSaves)

Next ==
    \/ Tick
    \/ \E tag \in MalformedTags : Corrupt(tag)
    \/ \E s \in Sessions : Load(s)
    \/ \E s \in Sessions : StorageEvent(s)
    \/ \E s \in Sessions : AddNewDress(s)
    \/ \E s \in Sessions : \E i \in 1..Len(entries[s]) : EditField(s, i)
    \/ \E s \in Sessions : \E i \in 1..Len(entries[s]) : ImagePick(s, i)
    \/ \E s \in Sessions : \E id \in uploads[s] : ImageLoaded(s, id)
    \/ \E s \in Sessions : \E i \in 1..Len(entries[s]) : \E confirmed \in BOOLEAN :
           RemoveClick(s, i, confirmed)
    \/ \E s \in Sessions : \E i \in 1..Len(entries[s]) : \E name \in Roster, b \in Votes :
           VoteClick(s, i, name, b)
    \/ \E s \in Sessions : \E i \in 1..Len(entries[s]) :
           \E name \in Roster, text \in NoteTexts \cup {""} : NoteInput(s, i, name, text)
    \/ \E s \in Sessions : SaveInvokeBasic(s)
    \/ \E s \in Sessions : SaveTimerFires(s)
    \/ \E s \in Sessions : SaveInvokeCloud(s)
    \/ \E s \in Sessions : CallResolves(s)
    \/ \E s \in Sessions : CallRejects(s)

Spec == Init /\ [][Next]_vars

(***************************************************************************)
(* One tab and its Entry Store: mount, then the user's edits               *)
(***************************************************************************)
InitStore == Start(Variants, StoreOps, 0)

NextStore ==
    \E s \in {"A"} :
        \/ Load(s)
        \/ AddNewDress(s)
        \/ \E i \in 1..Len(entries[s]) : EditField(s, i)
        \/ \E i \in 1..Len(entries[s]) : ImagePick(s, i)
        \/ \E id \in uploads[s] : ImageLoaded(s, id)
        \/ \E i \in 1..Len(entries[s]) : \E confirmed \in BOOLEAN : RemoveClick(s, i, confirmed)
        \/ \E i \in 1..Len(entries[s]) : \E name \in Roster, b \in Votes :
               VoteClick(s, i, name, b)
        \/ \E i \in 1..Len(entries[s]) : \E name \in Roster, text \in NoteTexts \cup {""} :
               NoteInput(s, i, name, text)

SpecStore == InitStore /\ [][NextStore]_vars

(***************************************************************************)
(* The Remote Mirror: the tabs of the cloud variant saving while the user  *)
(* goes on editing                                                         *)
(***************************************************************************)
InitMirror == Start({"cloud"}, MirrorOps, MirrorSaves)

NextMirror ==
    \E s \in Sessions :
        \/ Load(s)
        \/ StorageEvent(s)
        \/ AddNewDress(s)
        \/ \E i \in 1..Len(entries[s]) : EditField(s, i)
        \/ \E i \in 1..Len(entries[s]) : \E confirmed \in BOOLEAN : RemoveClick(s, i, confirmed)
        \/ SaveInvokeCloud(s)
        \/ CallResolves(s)
        \/ CallRejects(s)

SpecMirror == InitMirror /\ [][NextMirror]_vars

(***************************************************************************)
(* Two tabs of either variant side by side: creating, updating, removing,  *)
(* saving, and what reaches the other tab; another page may spoil the slot *)
(***************************************************************************)
InitTabs == Start(Variants, TabOps, TabSaves)

NextTabs ==
    \/ \E tag \in MalformedTags : Corrupt(tag)
    \/ \E s \in Sessions :
        \/ Load(s)
        \/ StorageEvent(s)
        \/ AddNewDress(s)
        \/ \E i \in 1..Len(entries[s]) : EditField(s, i)
        \/ \E i \in 1..Len(entries[s]) : \E confirmed \in BOOLEAN : RemoveClick(s, i, confirmed)
        \/ SaveInvokeBasic(s)
        \/ SaveTimerFires(s)
        \/ SaveInvokeCloud(s)
        \/ CallResolves(s)
        \/ CallRejects(s)

SpecTabs == InitTabs /\ [][NextTabs]_vars

(***************************************************************************)
(* updateMemberNote as a function: any id, any name, any partial note      *)
(***************************************************************************)
NoteUpdates ==
    {[vote |-> v] : v \in Votes \cup {Null}} \cup {[note |-> t] : t \in NoteTexts \cup {""}}

CallUpdateMemberNote(s, entryId, memberName, updates) ==
    /\ status[s] = "open"
    /\ Edit(s, updateMemberNote(entries[s], entryId, memberName, updates))
    /\ UNCHANGED <<widgets, variant, now, slot, nextId, saves, status, isSyncing, lastSyncTime,
                   syncProgress, timers, pass, notices, inbox, uploads, lastWriter, written>>

InitApi == Start(Variants, ApiCalls, 0)

NextApi ==
    \E s \in {"A"} :
        \/ Load(s)
        \/ \E entryId \in 1..3, memberName \in Roster \cup {Stranger}, updates \in NoteUpdates :
               CallUpdateMemberNote(s, entryId, memberName, updates)

SpecApi == InitApi /\ [][NextApi]_vars

(***************************************************************************)
(* CountdownTimer on its own: mount, the interval's callback, unmount      *)
(***************************************************************************)
\* TARGET_DATE of ./constants, in ms since the epoch.  The model's clock is
\* started near it: only TARGET_DATE - now enters the computation.
TARGET_DATE == 1000000000

\* What is left on the clock when the callback first runs, a second after mount
Distances ==
    {-1500, -1, 0, 1, 999, 1000, 59999, 60000, 3599999, 3600000, 86399999, 86400000,
     90061000, 90061999, 863999999}
CountdownStarts == {TARGET_DATE - (d + 1000) : d \in Distances}

\* The time between two runs of the callback of setInterval(..., 1000): on
\* time, a little late, or held back in a background tab.
Delays == {1000, 1004, 60000}

\* the slip of leaving the remainder out of the hours
TimeLeftOf_NoRemainder(distance) ==
    [days    |-> distance \div (1000 * 60 * 60 * 24),
     hours   |-> distance \div (1000 * 60 * 60),
     minutes |-> (distance % (1000 * 60 * 60)) \div (1000 * 60),
     seconds |-> (distance % (1000 * 60)) \div 1000]

\* Math.floor(a / b) of integers a >= 0, b > 0 is a \div b
TimeLeftOf(distance) ==
    [days    |-> distance \div (1000 * 60 * 60 * 24),
     hours   |-> (distance % (1000 * 60 * 60 * 24)) \div (1000 * 60 * 60),
     minutes |-> (distance % (1000 * 60 * 60)) \div (1000 * 60),
     seconds |-> (distance % (1000 * 60)) \div 1000]

\* useEffect(() => { const interval = setInterval(...) ... }, [])
CountdownMounts ==
    /\ interval = "none"
    /\ interval' = "set"
    /\ UNCHANGED <<variant, now, slot, nextId, ops, saves, status, entries, isSyncing,
                   lastSyncTime, syncProgress, timers, pass, notices, inbox, uploads,
                   lastWriter, written, timeLeft, fired, img, canvas>>

\* the callback, `delay` ms after the mount or after its previous run
IntervalFires(delay) ==
    /\ interval = "set"
    /\ fired < MaxFires
    /\ fired' = fired + 1
    /\ now' = now + delay
    /\ LET distance == TARGET_DATE - now'
       IN  IF distance < 0
           THEN interval' = "cleared" /\ UNCHANGED timeLeft
           ELSE timeLeft' = TimeLeftOf(distance) /\ UNCHANGED interval
    /\ UNCHANGED <<variant, slot, nextId, ops, saves, status, entries, isSyncing,
                   lastSyncTime, syncProgress, timers, pass, notices, inbox, uploads,
                   lastWriter, written, img, canvas>>

\* return () => clearInterval(interval): the component and its state are gone
CountdownUnmounts ==
    /\ interval \in {"set", "cleared"}
    /\ interval' = "none"
    /\ timeLeft' = ZeroTime
    /\ UNCHANGED <<variant, now, slot, nextId, ops, saves, status, entries, isSyncing,
                   lastSyncTime, syncProgress, timers, pass, notices, inbox, uploads,
                   lastWriter, written, fired, img, canvas>>

InitCountdown ==
    /\ now \in CountdownStarts
    /\ WidgetsIdle
    /\ Closed(Variants, 0, 0)

NextCountdown ==
    \/ CountdownMounts
    \/ \E delay \in Delays : IntervalFires(delay)
    \/ CountdownUnmounts

SpecCountdown == InitCountdown /\ [][NextCountdown]_vars

(***************************************************************************)
(* compressImage on its own: the decoded image, then its onload handler    *)
(***************************************************************************)
MAX_SIZE == 600

Sides ==
    {1, 2, 22, 200, 880, 2000, 4000}
    \cup {300 * k + e : k \in 1..MaxSideSteps, e \in {-1, 0, 1}}
Images == [width : Sides, height : Sides]

\* MAX_SIZE / den is a double without rounding error: a fraction whose
\* denominator, in lowest terms, is a power of two
ExactRatio(den) == \E k \in 0..12 : (MAX_SIZE * 2^k) % den = 0

\* canvas.width = x * (MAX_SIZE / den), for x <= den: the canvas takes the
\* product truncated to an integer.  The ratio is rounded to a double first, so
\* where x * MAX_SIZE / den is a whole number q the product is q or falls just
\* short of it (22 * (600 / 880) is 14.999999999999998): both outcomes are kept.
Truncations(x, den) ==
    LET q == (x * MAX_SIZE) \div den
    IN  IF (x * MAX_SIZE) % den = 0 /\ ~ExactRatio(den) THEN {q - 1, q} ELSE {q}

\* the slip of clamping the width only
compressImage_WidthOnly(i) ==
    IF i.width > MAX_SIZE
    THEN {[width |-> MAX_SIZE, height |-> h] : h \in Truncations(i.height, i.width)}
    ELSE {[width |-> i.width, height |-> i.height]}

\* the canvas sizes compressImage can end with for the decoded image i
compressImage(i) ==
    IF i.width > i.height
    THEN IF i.width > MAX_SIZE
         THEN {[width |-> MAX_SIZE, height |-> h] : h \in Truncations(i.height, i.width)}
         ELSE {[width |-> i.width, height |-> i.height]}
    ELSE IF i.height > MAX_SIZE
         THEN {[width |-> w, height |-> MAX_SIZE] : w \in Truncations(i.width, i.height)}
         ELSE {[width |-> i.width, height |-> i.height]}

\* img.onload
ImgOnload ==
    /\ img # NoImage
    /\ canvas = NoCanvas
    /\ canvas' \in compressImage(img)
    /\ UNCHANGED <<variant, now, slot, nextId, ops, saves, status, entries, isSyncing,
                   lastSyncTime, syncProgress, timers, pass, notices, inbox, uploads,
                   lastWriter, written, timeLeft, interval, fired, img>>

InitImage ==
    /\ now = 1
    /\ timeLeft = ZeroTime /\ interval = "none" /\ fired = 0
    /\ img \in Images
    /\ canvas = NoCanvas
    /\ Closed({"cloud"}, 0, 0)

NextImage == ImgOnload

SpecImage == InitImage /\ [][NextImage]_vars

(***************************************************************************)
(* Properties of the countdown (SpecCountdown)                             *)
(***************************************************************************)
Decomposes(d, t) ==
    /\ t.days >= 0
    /\ t.hours \in 0..23 /\ t.minutes \in 0..59 /\ t.seconds \in 0..59
    /\ t.days * 86400 + t.hours * 3600 + t.minutes * 60 + t.seconds = d \div 1000
    /\ d = 90061000 => t = [days |-> 1, hours |-> 1, minutes |-> 1, seconds |-> 1]

\* C13: every recomputation with a remaining interval of d >= 0 ms displays
\* days >= 0, hours in 0..23, minutes and seconds in 0..59 with
\* days*86400 + hours*3600 + minutes*60 + seconds = floor(d/1000); d = 90061000
\* gives 1 day, 1 hour, 1 minute, 1 second.
C13_Decomposition ==
    [][\A delay \in Delays :
          (IntervalFires(delay) /\ TARGET_DATE - now' >= 0)
             => Decomposes(TARGET_DATE - now', timeLeft')]_vars

\* The callback has run with 90061000 ms to go and the display shows 1, 1, 1, 1.
C13_Witness ==
    /\ fired > 0
    /\ interval = "set"
    /\ TARGET_DATE - now = 90061000
    /\ timeLeft = [days |-> 1, hours |-> 1, minutes |-> 1, seconds |-> 1]

(***************************************************************************)
(* Properties of the image normalizer (SpecImage)                          *)
(***************************************************************************)
Longer(r) == IF r.width > r.height THEN r.width ELSE r.height
Shorter(r) == IF r.width > r.height THEN r.height ELSE r.width
Smaller(a, b) == IF a < b THEN a ELSE b

\* C15: for every input of width and height >= 1, landscape, portrait or
\* square, the output's longer side is min(max(w, h), 600); the output is not
\* larger than the input on either axis; and the output's shorter side is the
\* input's shorter side scaled by the same factor up to rounding: not above the
\* exactly scaled value and not a whole pixel or more below it, except that it
\* is exactly one pixel below where the scaled value is a whole number that the
\* double product falls short of.
C15_NormalizedSize ==
    [][ImgOnload =>
          /\ Longer(canvas') = Smaller(Longer(img), MAX_SIZE)
          /\ canvas'.width <= img.width /\ canvas'.height <= img.height
          /\ Shorter(canvas') * Longer(img) <= Shorter(img) * Longer(canvas')
          /\ Shorter(img) * Longer(canvas') <= (Shorter(canvas') + 1) * Longer(img)]_vars

\* The 4000 x 2000 image has been drawn on a 600 x 300 canvas.
C15_Witness ==
    /\ img = [width |-> 4000, height |-> 2000]
    /\ canvas = [width |-> 600, height |-> 300]

(***************************************************************************)
(* Properties of the Entry Store (SpecStore)                               *)
(***************************************************************************)
Open(s) == status[s] = "open"
EntryAt(s, i) == entries[s][i]

VoteOutcome(s, i, name, b) ==
    LET old == EntryAt(s, i)
        new == entries'[s][i]
    IN  /\ Len(entries'[s]) = Len(entries[s])
        /\ new.teamNotes[name].vote = (IF old.teamNotes[name].vote = b THEN Null ELSE b)
        /\ new.teamNotes[name].note = old.teamNotes[name].note
        /\ new.teamNotes[name].name = old.teamNotes[name].name
        /\ DOMAIN new.teamNotes = DOMAIN old.teamNotes
        /\ \A other \in DOMAIN old.teamNotes \ {name} :
               new.teamNotes[other] = old.teamNotes[other]
        /\ new.id = old.id /\ new.location = old.location
        /\ new.price = old.price /\ new.image = old.image
        /\ \A j \in 1..Len(entries[s]) : j # i => entries'[s][j] = entries[s][j]
        /\ \A t \in Sessions \ {s} : entries'[t] = entries[t]

C9_VoteToggle ==
    [][\A s \in Sessions : \A i \in 1..Len(entries[s]) : \A name \in Roster, b \in Votes :
          VoteClick(s, i, name, b) => VoteOutcome(s, i, name, b)]_vars

\* A member's vote stands at "up" (so pressing "up" again is the unset case)
\* beside a typed note and the other member's "down" vote, with an edit to go.
C9_Witness ==
    /\ Open("A")
    /\ ops > 0
    /\ \E i \in 1..Len(entries["A"]) : \E name \in Roster, other \in Roster :
          /\ name # other
          /\ EntryAt("A", i).teamNotes[name].vote = "up"
          /\ EntryAt("A", i).teamNotes[name].note # ""
          /\ EntryAt("A", i).teamNotes[other].vote = "down"

\* C7: an entry's id is set once, at creation or seeding, to a fresh value; no
\* update of an entry's fields or notes changes any id; no two entries of a
\* store share an id; the id of a removed entry is never given to a later one.
IdSeq(es) == [k \in 1..Len(es) |-> es[k].id]
UniqueIds(es) == \A j, k \in 1..Len(es) : j # k => es[j].id # es[k].id
IsUpdate(s) ==
    \/ \E i \in 1..Len(entries[s]) : EditField(s, i)
    \/ \E id \in uploads[s] : ImageLoaded(s, id)
    \/ \E i \in 1..Len(entries[s]) : \E name \in Roster, b \in Votes : VoteClick(s, i, name, b)
    \/ \E i \in 1..Len(entries[s]) : \E name \in Roster, text \in NoteTexts \cup {""} :
           NoteInput(s, i, name, text)

C7_StableIds ==
    [][\A s \in Sessions :
          /\ UniqueIds(entries'[s])
          /\ IsUpdate(s) => IdSeq(entries'[s]) = IdSeq(entries[s])
          \* an id that enters the store was read from the slot or never handed out
          /\ \A id \in IdsOf(entries'[s]) \ IdsOf(entries[s]) :
                id \in IdsOf(slot.entries) \/ id >= nextId]_vars

\* An entry of the loaded store is gone, an entry created after that is there,
\* and a field of an entry was updated.
C7_Witness ==
    /\ Open("A")
    /\ slot = PriorSlot(variant)
    /\ 1 \notin IdsOf(entries["A"])
    /\ \E i \in 1..Len(entries["A"]) : EntryAt("A", i).id >= 3
    /\ \E i \in 1..Len(entries["A"]) : EntryAt("A", i).location # ""

(***************************************************************************)
(* Properties of the Remote Mirror (SpecMirror)                            *)
(***************************************************************************)
PassEntries(s) == pass[s].syncData.entries
Calls(s) == pass[s].calls
LastCall(s) == Calls(s)[Len(Calls(s))]

\* The calls of a pass, as issued so far: call k carries entry k of the pass's
\* entries; every call before the latest has completed; only the latest can be
\* in flight, and is exactly while the pass runs.
InEntryOrder(s) ==
    /\ Len(Calls(s)) <= Len(PassEntries(s))
    /\ \A k \in 1..Len(Calls(s)) : Calls(s)[k].request = Request(PassEntries(s), k)
    /\ \A k \in 1..Len(Calls(s)) - 1 : Calls(s)[k].state = "done"
    /\ pass[s].active <=> (Calls(s) # <<>> /\ LastCall(s).state = "inflight")

\* How a pass that is over ended: on a failed call with one failure notice and
\* no success notice, or with every entry's call done and one success notice.
EndedRight(s) ==
    (~pass[s].active /\ Calls(s) # <<>>) =>
        \/ LastCall(s).state = "failed" /\ notices[s] = <<"failure">>
        \/ /\ LastCall(s).state = "done" /\ Len(Calls(s)) = Len(PassEntries(s))
           /\ notices[s] = <<"success">>

\* C4: in a pass over n entries the calls are issued one at a time in entry
\* order, call i+1 only after call i has completed; if call k fails, calls
\* 1..k-1 have completed, no call for a later entry is ever issued, and the
\* pass ends with exactly one failure notice and no success notice.
C4_OrderedAbort ==
    [][\A s \in Sessions :
          /\ InEntryOrder(s)' /\ EndedRight(s)'
          \* after a failed call only a new pass changes the calls
          /\ (Calls(s) # <<>> /\ LastCall(s).state = "failed" /\ Calls(s)' # Calls(s))
                => SaveInvokeCloud(s)]_vars

\* A pass over three entries has ended on the failure of its second call.
C4_Witness ==
    \E s \in Sessions :
        /\ Len(PassEntries(s)) = 3
        /\ Len(Calls(s)) = 2
        /\ Calls(s)[1].state = "done" /\ Calls(s)[2].state = "failed"
        /\ ~isSyncing[s]

\* C5 as stated: no step of a mirror pass, succeeding or failing, modifies the
\* Entry Store, and when the pass ends the slot still holds exactly the
\* snapshot written at the start of that pass.
PassSteps(s) == CallResolves(s) \/ CallRejects(s)

C5_SlotHoldsPassSnapshot ==
    [][\A s \in Sessions :
          /\ PassSteps(s) => entries' = entries
          /\ (pass[s].active /\ ~pass'[s].active)
                => slot' = JSONstringify(pass[s].syncData)]_vars

\* C5 as amended: no step of a mirror pass, succeeding or failing, modifies the
\* Entry Store or the slot (no rollback, no invalidation); unless another tab
\* or page has written the slot since, the slot holds exactly the snapshot the
\* pass wrote at its start, during the pass and after it; and the store can be
\* edited while the pass runs.
C5_MirrorLeavesLocal ==
    [][\A s \in Sessions :
          /\ PassSteps(s) => (entries' = entries /\ slot' = slot)
          /\ lastWriter' = s => slot' = JSONstringify(pass'[s].syncData)]_vars

\* A pass has ended in failure after the user edited the store while it ran.
C5_Witness ==
    \E s \in Sessions :
        /\ ~pass[s].active /\ Calls(s) # <<>> /\ LastCall(s).state = "failed"
        /\ lastWriter = s
        /\ entries[s] # PassEntries(s)
        /\ slot = JSONstringify(pass[s].syncData)

\* The calls of the pass that have completed, and the pass going on over a step.
Completed(s) == Cardinality({k \in 1..Len(Calls(s)) : Calls(s)[k].state = "done"})
PassGoesOn(s) == pass[s].active /\ pass'[s].active

\* C12: during a pass over n entries, progress (i+1)/n is reported only after
\* the call for entry i has completed: the reported progress never exceeds the
\* fraction of the entries whose call has completed, and it does not decrease
\* within a pass.
C12_ProgressAfterCompletion ==
    [][\A s \in Sessions :
          /\ pass'[s].active =>
                syncProgress'[s] <= Percent(Completed(s)', Len(PassEntries(s)'))
          /\ PassGoesOn(s) => syncProgress'[s] >= syncProgress[s]]_vars

\* What the code keeps of C12: progress is the share of the entries whose call
\* has been issued, and it does not decrease within a pass.
ProgressOfIssuedCalls ==
    [][\A s \in Sessions :
          /\ pass'[s].active =>
                syncProgress'[s] = Percent(Len(Calls(s)'), Len(PassEntries(s)'))
          /\ PassGoesOn(s) => syncProgress'[s] >= syncProgress[s]]_vars

(***************************************************************************)
(* Properties of the entries' lifecycle across tabs (SpecTabs)             *)
(***************************************************************************)
Gone(s) == IdsOf(entries[s]) \ IdsOf(entries'[s])
Declined(s) == \E i \in 1..Len(entries[s]) : RemoveClick(s, i, FALSE)
Removed(s) == \E i \in 1..Len(entries[s]) : RemoveClick(s, i, TRUE)
Overwritten(s) ==
    /\ StorageEvent(s)
    /\ Head(inbox[s]).newValue.tag = "snapshot"
    /\ entries'[s] = Head(inbox[s]).newValue.entries

\* C11 as stated: an entry leaves a session's Entry Store only through a
\* confirmed remove-entry; a declined confirmation leaves the store unchanged;
\* no update, create, save, load or cross-session notification makes an entry
\* of the store disappear.
C11_OnlyByRemove ==
    [][\A s \in Sessions : (Open(s) /\ Open(s)') =>
          /\ Declined(s) => entries'[s] = entries[s]
          /\ Gone(s) # {} => Removed(s)]_vars

\* C11 as amended: in a running session an entry leaves the Entry Store only
\* through a confirmed remove-entry, or when a change notification overwrites
\* the store with the snapshot another session saved; a declined confirmation
\* leaves the store unchanged; no update, create, save or load makes an entry
\* disappear.
C11_RemoveOrOverwrite ==
    [][\A s \in Sessions : (Open(s) /\ Open(s)') =>
          /\ Declined(s) => entries'[s] = entries[s]
          /\ Gone(s) # {} => (Removed(s) \/ Overwritten(s))]_vars

\* Nothing was edited or removed, both tabs seeded an entry of their own, and
\* after B's save reached A the two stores are the same: A's seed is gone.
C11_Witness ==
    /\ ops = TabOps
    /\ nextId = 5
    /\ Open("A") /\ Open("B")
    /\ lastWriter = "B"
    /\ inbox["A"] = <<>>
    /\ entries["A"] = slot.entries
    /\ Len(entries["A"]) = 1

(***************************************************************************)
(* Properties of the load effect (SpecStore)                               *)
(***************************************************************************)
\* an entry as create and seeding make it, whatever its id
IsSeed(e) ==
    /\ e.location = "" /\ e.price = "" /\ e.image = Null
    /\ DOMAIN e.teamNotes = Roster
    /\ \A name \in Roster : e.teamNotes[name] = [name |-> name, note |-> "", vote |-> Null]

\* C14: when a session loads and the slot is absent, its Entry Store becomes
\* exactly one entry with empty location and price, no image and one empty,
\* unset Note per roster member; when the slot holds a snapshot the store equals
\* the snapshot's entries and no seed entry is added.
C14_Seeding ==
    [][\A s \in Sessions : Load(s) =>
          IF slot.tag = "absent"
          THEN Len(entries'[s]) = 1 /\ IsSeed(entries'[s][1])
          ELSE slot.tag = "snapshot" => entries'[s] = slot.entries]_vars

\* What the code keeps of C14: part_000 seeds; both variants take over the
\* entries of a snapshot as they are.
SeedingOfBasic ==
    [][\A s \in Sessions : Load(s) =>
          IF slot.tag = "absent"
          THEN IF variant = "basic"
               THEN Len(entries'[s]) = 1 /\ IsSeed(entries'[s][1])
               ELSE entries'[s] = <<>>
          ELSE slot.tag = "snapshot" => entries'[s] = slot.entries]_vars

(***************************************************************************)
(* Properties of updateMemberNote as a function (SpecApi)                  *)
(***************************************************************************)
HasEntry(es, id) == id \in IdsOf(es)
HasNote(es, id, name) == \E i \in 1..Len(es) : es[i].id = id /\ name \in DOMAIN es[i].teamNotes

\* C10: update-note(id, memberName, fields) leaves every entry of the Entry
\* Store unchanged when no entry has the id or when the matching entry's
\* teamNotes has no Note for memberName.
C10_AbsentIsNoOp ==
    [][\A s \in Sessions : \A entryId \in 1..3, memberName \in Roster \cup {Stranger},
                              updates \in NoteUpdates :
          (/\ CallUpdateMemberNote(s, entryId, memberName, updates)
           /\ ~HasEntry(entries[s], entryId) \/ ~HasNote(entries[s], entryId, memberName))
             => entries'[s] = entries[s]]_vars

\* The half of C10 the code keeps: no entry has the id.
AbsentEntryIsNoOp ==
    [][\A s \in Sessions : \A entryId \in 1..3, memberName \in Roster \cup {Stranger},
                              updates \in NoteUpdates :
          (CallUpdateMemberNote(s, entryId, memberName, updates) /\ ~HasEntry(entries[s], entryId))
             => entries'[s] = entries[s]]_vars

(***************************************************************************)
(* Properties of the Persistence Bridge (Spec)                             *)
(***************************************************************************)
\* C2: when a session's save has completed, every other open session ends up,
\* on the change notification, with an Entry Store equal to the saving
\* session's store at the moment the save completed, whatever either session
\* edited before or while the save was in progress.
C2_Propagation ==
    [][\A s \in Sessions :
          (StorageEvent(s) /\ Head(inbox[s]).newValue.tag = "snapshot")
             => entries'[s] = Head(inbox[s]).writerEntries]_vars

\* C3: for every reachable Entry Store state, the empty one included, save
\* followed by load in a fresh session yields the same ordered entries and a
\* lastSyncTime equal to the lastUpdated the save produced.
SaveThenLoad(es, t) ==
    LoadEffect(variant, SaveWrites(variant, [entries |-> es, lastUpdated |-> t], slot), nextId)

C3_RoundTrip ==
    \A s \in Sessions : Open(s) =>
        /\ SaveThenLoad(entries[s], now).status = "open"
        /\ SaveThenLoad(entries[s], now).entries = entries[s]
        /\ SaveThenLoad(entries[s], now).lastSyncTime = now

\* The round trip the code keeps: a store that has an entry, and every store of
\* the basic variant.
RoundTripOfWrittenStore ==
    \A s \in Sessions : (Open(s) /\ (variant = "basic" \/ entries[s] # <<>>)) =>
        /\ SaveThenLoad(entries[s], now).entries = entries[s]
        /\ SaveThenLoad(entries[s], now).lastSyncTime = now

\* C6: a slot value that fails to parse as a Snapshot, read at load or received
\* in a change notification, never crashes a session.
C6_NeverCrashes == \A s \in Sessions : status[s] # "crashed"

\* C8: of two successive writes to the slot by the same session, the later has
\* the strictly greater lastUpdated, also when the saves are invoked back to
\* back or overlap.
WritesSlot(s) == SaveTimerFires(s) \/ (SaveInvokeCloud(s) /\ entries[s] # <<>>)

C8_StrictlyLater ==
    [][\A s \in Sessions :
          (WritesSlot(s) /\ written[s] # NoTime) => written'[s] > written[s]]_vars

\* C16: isSyncing is true whenever a save pass of the session is pending or in
\* progress, also when save is invoked again before an earlier save has
\* finished; when a save pass ends, by success or by failure, and none is left,
\* isSyncing is false, and it stays false until the next save is invoked.
SavePending(s) == timers[s] # <<>> \/ pass[s].active
SaveInvoked(s) == SaveInvokeBasic(s) \/ (SaveInvokeCloud(s) /\ entries[s] # <<>>)
SaveEnds(s) == SaveTimerFires(s) \/ CallRejects(s) \/ (CallResolves(s) /\ ~pass'[s].active)

C16_SyncingFlag ==
    [][\A s \in Sessions : (Open(s) /\ Open(s)') =>
          /\ SavePending(s)' => isSyncing'[s]
          /\ (SaveEnds(s) /\ ~SavePending(s)') => ~isSyncing'[s]
          /\ (~isSyncing[s] /\ isSyncing'[s]) => SaveInvoked(s)]_vars

\* What the code keeps of C16: the flag follows the save that ended last.  It
\* is false after every end of a save, pending saves or not, and goes up only
\* when a save is invoked.
SyncingFollowsLastEnd ==
    [][\A s \in Sessions : (Open(s) /\ Open(s)') =>
          /\ SaveEnds(s) => ~isSyncing'[s]
          /\ SaveInvoked(s) => isSyncing'[s]
          /\ (~isSyncing[s] /\ isSyncing'[s]) => SaveInvoked(s)]_vars

\* What the code keeps of C8 while the clock does not run backwards.
NeverEarlier ==
    [][\A s \in Sessions :
          (WritesSlot(s) /\ written[s] # NoTime) => written'[s] >= written[s]]_vars

====
